---- MODULE Spec2Model ----
(***************************************************************************)
(* Relationship Concept Core (cim-domain-relationship).                    *)
(*                                                                         *)
(* The EdgeConcept aggregate: its lifecycle state machine, the mutating    *)
(* lifecycle methods, the event reducer apply_event_pure and from_events.  *)
(* The HyperEdgeConcept aggregate and its reducer.                         *)
(*                                                                         *)
(* Encoding.  Option<T> is a sequence of length 0 (None) or 1 (Some).      *)
(* Reals in [0,1] are integers in hundredths, except confidence, which is  *)
(* kept in tenths because the reducer computes it as len / 10.  A HashMap  *)
(* is a function whose DOMAIN is the set of keys.  Time is an integer      *)
(* count of days; every call of Utc::now() is an input of the action.      *)
(***************************************************************************)
EXTENDS Integers, Sequences, FiniteSets, TLC

VARIABLES
    edge,        \* the EdgeConcept the caller holds, or NoEdge before construction
    last,        \* the last call on edge: [op, ok, arg, repeated]
    was_active,  \* edge has been in state Active since construction
    hyper,       \* the HyperEdgeConcept the caller holds, or NoHyper
    hlast,       \* the last call on hyper: [op, ok, arg, repeated]
    space,       \* the RelationshipSpace the caller holds, or NoSpace
    slast,       \* the last call on space, the add calls so far, and whether
                 \* one happened since a tessellation was stored
    call         \* the last call of a function that has no receiver to keep

vars == <<edge, last, was_active, hyper, hlast, space, slast, call>>
edgeVars == <<edge, last, was_active>>
hyperVars == <<hyper, hlast>>
spaceVars == <<space, slast>>
besideEdge == <<hyperVars, spaceVars, call>>
besideHyper == <<edgeVars, spaceVars, call>>
besideSpace == <<edgeVars, hyperVars, call>>
besideCall == <<edgeVars, hyperVars, spaceVars>>

----------------------------------------------------------------------------
\* Bounds of the model

MaxTime == 1
MaxVersion == 3
MaxCids == 11
MaxLog == 3
MaxCoordinate == 120

Times == 0 .. MaxTime

----------------------------------------------------------------------------
\* Option, maps, small helpers

None == << >>
Some(x) == << x >>
is_some(o) == Len(o) = 1

EmptyMap == [k \in {} |-> 0]
insert(m, k, v) == [x \in (DOMAIN m) \cup {k} |-> IF x = k THEN v ELSE m[x]]

Min(a, b) == IF a <= b THEN a ELSE b
\* f64::NAN, kept as a number apart from every other one the model uses
NaN == -1000000

\* f64::clamp: NaN if self is NaN
clamp(x, lo, hi) ==
    IF x = NaN THEN NaN ELSE IF x < lo THEN lo ELSE IF x > hi THEN hi ELSE x

contains(s, x) == \E i \in 1 .. Len(s) : s[i] = x

----------------------------------------------------------------------------
\* ValidityPeriod (value_objects)

ongoing(starts_at) == [starts_at |-> starts_at, ends_at |-> None, end_reason |-> None]

ongoing_now(now) == ongoing(now)

end(self, ends_at, reason) ==
    [self EXCEPT !.ends_at = Some(ends_at), !.end_reason = Some(reason)]

fixed_term(starts_at, ends_at) ==
    [starts_at |-> starts_at, ends_at |-> Some(ends_at), end_reason |-> None]

has_ended(self, now) == is_some(self.ends_at) /\ now >= self.ends_at[1]

duration_days(self) ==
    IF is_some(self.ends_at) THEN Some(self.ends_at[1] - self.starts_at) ELSE None

----------------------------------------------------------------------------
\* Formality and the quality model

as_f64(f) ==
    CASE f = "Informal" -> 0
      [] f = "SemiFormal" -> 25
      [] f = "Formal" -> 50
      [] f = "Contractual" -> 75
      [] f = "Legal" -> 100

Formalities == {"Informal", "SemiFormal", "Formal", "Contractual", "Legal"}

\* from_f64 with the rungs' own values as the upper ends of the buckets
from_f64_by_rung(value) ==
    IF value < 25 THEN "Informal"
    ELSE IF value < 50 THEN "SemiFormal"
    ELSE IF value < 75 THEN "Formal"
    ELSE IF value < 100 THEN "Contractual"
    ELSE "Legal"

\* value < 0.125 and so on, value being in hundredths: 8 * value < 100
from_f64(value) ==
    IF value # NaN /\ 8 * value < 100 THEN "Informal"
    ELSE IF value # NaN /\ 8 * value < 300 THEN "SemiFormal"
    ELSE IF value # NaN /\ 8 * value < 500 THEN "Formal"
    ELSE IF value # NaN /\ 8 * value < 700 THEN "Contractual"
    ELSE "Legal"

\* days / 365.0 in hundredths, truncated toward zero
DaysOver365(days) ==
    IF days >= 0 THEN (days * 100) \div 365 ELSE 0 - (((0 - days) * 100) \div 365)

QualityPoint_new(s, t, f, d, r) ==
    [strength |-> clamp(s, 0, 100), trust |-> clamp(t, 0, 100),
     formality |-> clamp(f, 0, 100), duration |-> clamp(d, 0, 100),
     reciprocity |-> clamp(r, 0, 100)]

RelationshipQuality_new(s, t, f, d, r) ==
    [strength |-> clamp(s, 0, 100), trust |-> clamp(t, 0, 100), formality |-> f,
     duration |-> d, reciprocity |-> clamp(r, 0, 100)]

RelationshipQuality_default(now) ==
    RelationshipQuality_new(50, 50, "Formal", ongoing_now(now), 50)

to_quality_point(q, now) ==
    LET duration_normalized ==
            IF has_ended(q.duration, now)
            THEN Min(DaysOver365(duration_days(q.duration)[1]), 100)
            ELSE Min(DaysOver365(now - q.duration.starts_at), 100)
    IN  QualityPoint_new(q.strength, q.trust, as_f64(q.formality),
                         duration_normalized, q.reciprocity)

\* A projection onto three other dimensions
to_point3_later_dimensions(p) == << p.formality, p.duration, p.reciprocity >>

to_point3(p) == << p.strength, p.trust, p.formality >>

----------------------------------------------------------------------------
\* Edge state machine

EdgeStates == {"Proposed", "Active", "Suspended", "Terminated", "Rejected"}

is_terminal(s) == s \in {"Terminated", "Rejected"}

can_transition_to_any_end(s, to) ==
    \/ << s, to >> \in { << "Proposed", "Active" >>, << "Proposed", "Rejected" >>,
                         << "Active", "Suspended" >>, << "Suspended", "Active" >> }
    \/ to = "Terminated" /\ s # "Terminated"

can_transition_to(s, to) ==
    << s, to >> \in { << "Proposed", "Active" >>, << "Proposed", "Rejected" >>,
                      << "Active", "Suspended" >>, << "Active", "Terminated" >>,
                      << "Suspended", "Active" >>, << "Suspended", "Terminated" >> }

\* valid_transitions with Suspended => vec![Active]
valid_transitions_resume_only(s) ==
    CASE s = "Proposed" -> << "Active", "Rejected" >>
      [] s = "Active" -> << "Suspended", "Terminated" >>
      [] s = "Suspended" -> << "Active" >>
      [] s = "Terminated" -> << >>
      [] s = "Rejected" -> << >>

valid_transitions(s) ==
    CASE s = "Proposed" -> << "Active", "Rejected" >>
      [] s = "Active" -> << "Suspended", "Terminated" >>
      [] s = "Suspended" -> << "Active", "Terminated" >>
      [] s = "Terminated" -> << >>
      [] s = "Rejected" -> << >>

----------------------------------------------------------------------------
\* EdgeConcept

NoEdge == [state |-> "None"]

EdgeConcept_new(id, concept_id, name, source, target, category, now) ==
    LET quality == RelationshipQuality_default(now) IN
    [id |-> id, concept_id |-> concept_id, source |-> source, target |-> target,
     category |-> category, name |-> name, description |-> None,
     quality |-> quality, position |-> to_point3(to_quality_point(quality, now)),
     knowledge_level |-> "Unknown", confidence |-> 0, evidence_cids |-> << >>,
     state |-> "Proposed", validity |-> ongoing_now(now), properties |-> EmptyMap,
     version |-> 0, created_at |-> now, updated_at |-> now]

\* Builders: they consume self and return it changed
with_quality(self, quality, now) ==
    [self EXCEPT !.position = to_point3(to_quality_point(quality, now)),
                 !.quality = quality]

with_validity(self, validity) == [self EXCEPT !.validity = validity]

\* The mutating methods return [ok, self]: the Result and the receiver afterwards.
transition_to(self, new_state, now) ==
    IF can_transition_to(self.state, new_state)
    THEN [ok |-> TRUE, self |-> [self EXCEPT !.state = new_state, !.updated_at = now]]
    ELSE [ok |-> FALSE, self |-> self]

activate(self, now) == transition_to(self, "Active", now)

suspend(self, now) == transition_to(self, "Suspended", now)

resume(self, now) == transition_to(self, "Active", now)

terminate(self, reason, now) ==
    transition_to([self EXCEPT !.validity = end(self.validity, now, reason)],
                  "Terminated", now)

reject(self, now) == transition_to(self, "Rejected", now)

----------------------------------------------------------------------------
\* Edge events and the reducer

\* let mut next = self.clone(); next.version += 1; next.updated_at = Utc::now();
clone_next_unversioned(self, now) == [self EXCEPT !.updated_at = now]

clone_next(self, now) == [self EXCEPT !.version = self.version + 1, !.updated_at = now]

\* The EvidenceAdded arm
evidence_added_unchecked(next, event) ==
    LET cids == Append(next.evidence_cids, event.evidence_cid)
    IN  [next EXCEPT !.evidence_cids = cids, !.confidence = Min(Len(cids), 10)]

evidence_added_unbounded(next, event) ==
    LET cids == IF ~contains(next.evidence_cids, event.evidence_cid)
                THEN Append(next.evidence_cids, event.evidence_cid)
                ELSE next.evidence_cids
    IN  [next EXCEPT !.evidence_cids = cids, !.confidence = Len(cids)]

\* As if the new cid went to the front of the list:
evidence_added_in_front(next, event) ==
    LET cids == IF ~contains(next.evidence_cids, event.evidence_cid)
                THEN << event.evidence_cid >> \o next.evidence_cids
                ELSE next.evidence_cids
    IN  [next EXCEPT !.evidence_cids = cids, !.confidence = Min(Len(cids), 10)]

\* As if the confidence were recomputed only when the cid is new:
evidence_added_only_if_new(next, event) ==
    IF contains(next.evidence_cids, event.evidence_cid) THEN next
    ELSE LET cids == Append(next.evidence_cids, event.evidence_cid)
         IN  [next EXCEPT !.evidence_cids = cids, !.confidence = Min(Len(cids), 10)]

evidence_added(next, event) ==
    LET cids == IF ~contains(next.evidence_cids, event.evidence_cid)
                THEN Append(next.evidence_cids, event.evidence_cid)
                ELSE next.evidence_cids
    IN  [next EXCEPT !.evidence_cids = cids, !.confidence = Min(Len(cids), 10)]

apply_event_pure(self, event, now) ==
    LET next == clone_next(self, now) IN
    CASE event.type = "EdgeCreated" ->
            [next EXCEPT !.id = event.edge_id, !.concept_id = event.concept_id,
                         !.source = event.source, !.target = event.target,
                         !.category = event.category, !.name = event.name,
                         !.state = "Proposed", !.created_at = event.created_at]
      [] event.type = "EdgeActivated" -> [next EXCEPT !.state = "Active"]
      [] event.type = "EdgeSuspended" ->
            [next EXCEPT !.state = "Suspended",
                         !.properties = IF is_some(event.reason)
                                        THEN insert(@, "suspension_reason", event.reason[1])
                                        ELSE @]
      [] event.type = "EdgeTerminated" ->
            [next EXCEPT !.state = "Terminated",
                         !.validity = end(@, event.terminated_at, event.reason)]
      [] event.type = "EdgeRejected" ->
            [next EXCEPT !.state = "Rejected",
                         !.properties = IF is_some(event.reason)
                                        THEN insert(@, "rejection_reason", event.reason[1])
                                        ELSE @]
      [] event.type = "QualityUpdated" ->
            [next EXCEPT !.quality = event.new_quality,
                         !.position = to_point3(to_quality_point(event.new_quality, now))]
      [] event.type = "EvidenceAdded" -> evidence_added(next, event)
      [] event.type = "KnowledgeProgressed" ->
            [next EXCEPT !.knowledge_level = event.to_level,
                         !.confidence = event.new_confidence]
      [] event.type = "PropertyUpdated" ->
            [next EXCEPT !.properties = insert(@, event.key, event.value)]

\* The aggregate from_events builds from its first event
from_events_first(e, now) ==
    LET quality == RelationshipQuality_default(now) IN
    [id |-> e.edge_id, concept_id |-> e.concept_id, source |-> e.source,
     target |-> e.target, category |-> e.category, name |-> e.name,
     description |-> None, quality |-> quality,
     position |-> to_point3(to_quality_point(quality, now)),
     knowledge_level |-> "Unknown", confidence |-> 0, evidence_cids |-> << >>,
     state |-> "Proposed", validity |-> ongoing(e.created_at), properties |-> EmptyMap,
     version |-> 0, created_at |-> e.created_at, updated_at |-> e.created_at]

\* &events[1..] (events[1] is the first event here: sequences are 1-based)
events_rest_from_third(events) == SubSeq(events, 3, Len(events))

events_rest(events) == SubSeq(events, 2, Len(events))

\* for event in rest { edge = edge.apply_event_pure(event)? }
\* nows[i] is the clock reading while rest[i] is applied
RECURSIVE from_events_loop(_, _, _)
from_events_loop(acc, rest, nows) ==
    IF rest = << >> THEN acc
    ELSE from_events_loop(apply_event_pure(acc, Head(rest), Head(nows)),
                          Tail(rest), Tail(nows))

\* nows[i] is the clock reading while events[i] is handled
from_events(events, nows) ==
    IF Len(events) = 0 THEN [ok |-> FALSE, err |-> "InvalidRelationship", edge |-> NoEdge]
    ELSE IF events[1].type # "EdgeCreated"
         THEN [ok |-> FALSE, err |-> "InvalidRelationship", edge |-> NoEdge]
         ELSE [ok |-> TRUE, err |-> "",
               edge |-> from_events_loop(from_events_first(events[1], nows[1]),
                                         events_rest(events), Tail(nows))]

\* apply_event_pure(&self, ..): the receiver after the call and the value
\* returned.  As if the arm had worked on self, not on the clone:
apply_event_pure_in_place(self, event, now) ==
    [receiver |-> apply_event_pure(self, event, now),
     returned |-> apply_event_pure(self, event, now)]

apply_event_pure_call(self, event, now) ==
    [receiver |-> self, returned |-> apply_event_pure(self, event, now)]

\* One run of from_events in a process: beside the events and the clock, the
\* process has an id generator (RelationshipId::new()), whose next id is
\* fresh_id.  As if from_events minted the id, the way EdgeConcept::new does:
from_events_run_minting_id(events, nows, fresh_id) ==
    LET r == from_events(events, nows) IN
    IF r.ok THEN [r EXCEPT !.edge.id = fresh_id] ELSE r

from_events_run(events, nows, fresh_id) == from_events(events, nows)

----------------------------------------------------------------------------
\* EntityRef and its Display form, the key of the incidence matrix

nats_subject_prefix(entity_type) ==
    CASE entity_type = "Person" -> "person"
      [] entity_type = "Organization" -> "organization"
      [] entity_type = "Location" -> "location"
      [] entity_type = "Agent" -> "agent"
      [] entity_type = "Policy" -> "policy"
      [] entity_type = "Concept" -> "concept"
      [] entity_type = "Relationship" -> "relationship"
      [] OTHER -> "custom"

EntityRef_new(entity_type, entity_id) ==
    [entity_type |-> entity_type, entity_id |-> entity_id, cid |-> None, version |-> None]

with_cid(self, cid) == [self EXCEPT !.cid = Some(cid)]

with_version(self, version) == [self EXCEPT !.version = Some(version)]

\* A cid is a sequence of characters; &cid[..8] panics on fewer than 8
CidPrefixLen == 8

to_string_panics(r) == is_some(r.cid) /\ Len(r.cid[1]) < CidPrefixLen

to_string(r) ==
    << nats_subject_prefix(r.entity_type), r.entity_id,
       IF is_some(r.cid) THEN << "@", SubSeq(r.cid[1], 1, CidPrefixLen) >>
       ELSE IF is_some(r.version) THEN << "@v", r.version[1] >>
       ELSE << >> >>

----------------------------------------------------------------------------
\* IncidenceMatrix

IncidenceMatrix_new == EmptyMap

\* add_participant keeping the entry of a key that is already present
im_add_participant_keeping(m, entity_ref, role, weight, now) ==
    IF to_string(entity_ref) \in DOMAIN m THEN m
    ELSE insert(m, to_string(entity_ref),
                [entity_ref |-> entity_ref, role |-> role,
                 weight |-> clamp(weight, 0, 100), joined_at |-> now])

im_add_participant(m, entity_ref, role, weight, now) ==
    insert(m, to_string(entity_ref),
           [entity_ref |-> entity_ref, role |-> role,
            weight |-> clamp(weight, 0, 100), joined_at |-> now])

\* HashMap::remove: the matrix afterwards and the entry removed, if any
im_remove_participant(m, entity_ref) ==
    LET key == to_string(entity_ref) IN
    IF key \in DOMAIN m
    THEN [matrix |-> [k \in (DOMAIN m) \ {key} |-> m[k]], entry |-> Some(m[key])]
    ELSE [matrix |-> m, entry |-> None]

participant_count(m) == Cardinality(DOMAIN m)

im_contains(m, entity_ref) == to_string(entity_ref) \in DOMAIN m

----------------------------------------------------------------------------
\* HyperEdge state machine and aggregate

HyperEdgeStates == {"Forming", "Active", "Restructuring", "Dissolved"}

h_is_terminal(s) == s = "Dissolved"

h_can_transition_to_reopening(s, to) ==
    << s, to >> \in { << "Forming", "Active" >>, << "Forming", "Dissolved" >>,
                      << "Active", "Restructuring" >>, << "Active", "Dissolved" >>,
                      << "Restructuring", "Active" >>, << "Restructuring", "Dissolved" >>,
                      << "Dissolved", "Active" >> }

h_can_transition_to(s, to) ==
    << s, to >> \in { << "Forming", "Active" >>, << "Forming", "Dissolved" >>,
                      << "Active", "Restructuring" >>, << "Active", "Dissolved" >>,
                      << "Restructuring", "Active" >>, << "Restructuring", "Dissolved" >> }

NoHyper == [state |-> "None"]

HyperEdgeConcept_new(id, concept_id, name, category, now) ==
    LET quality == RelationshipQuality_default(now) IN
    [id |-> id, concept_id |-> concept_id, category |-> category, name |-> name,
     description |-> None, participants |-> IncidenceMatrix_new,
     quality |-> quality, position |-> to_point3(to_quality_point(quality, now)),
     knowledge_level |-> "Unknown", confidence |-> 0, evidence_cids |-> << >>,
     state |-> "Forming", validity |-> ongoing_now(now), properties |-> EmptyMap,
     version |-> 0, created_at |-> now, updated_at |-> now]

\* add_participant refusing an entity that is already a participant
h_add_participant_once(self, entity_ref, role, weight, now) ==
    IF h_is_terminal(self.state) \/ im_contains(self.participants, entity_ref)
    THEN [ok |-> FALSE, self |-> self]
    ELSE [ok |-> TRUE,
          self |-> [self EXCEPT
                      !.participants = insert(@, to_string(entity_ref),
                            [entity_ref |-> entity_ref, role |-> role,
                             weight |-> clamp(weight, 0, 100), joined_at |-> now]),
                      !.updated_at = now]]

h_add_participant(self, entity_ref, role, weight, now) ==
    IF h_is_terminal(self.state) THEN [ok |-> FALSE, self |-> self]
    ELSE [ok |-> TRUE,
          self |-> [self EXCEPT
                      !.participants = im_add_participant(@, entity_ref, role, weight, now),
                      !.updated_at = now]]

MinParticipants == 2

\* remove_participant with the count compared by < in place of <=
h_remove_participant_below_min(self, entity_ref, now) ==
    IF h_is_terminal(self.state) THEN [ok |-> FALSE, self |-> self]
    ELSE IF participant_count(self.participants) < MinParticipants
         THEN [ok |-> FALSE, self |-> self]
         ELSE [ok |-> TRUE,
               self |-> [self EXCEPT
                           !.participants = im_remove_participant(@, entity_ref).matrix,
                           !.updated_at = now]]

h_remove_participant(self, entity_ref, now) ==
    IF h_is_terminal(self.state) THEN [ok |-> FALSE, self |-> self]
    ELSE IF participant_count(self.participants) <= MinParticipants
         THEN [ok |-> FALSE, self |-> self]
         ELSE [ok |-> TRUE,
               self |-> [self EXCEPT
                           !.participants = im_remove_participant(@, entity_ref).matrix,
                           !.updated_at = now]]

\* activate without its check of the participant count
h_activate_any_count(self, now) ==
    IF ~h_can_transition_to(self.state, "Active")
    THEN [ok |-> FALSE, self |-> self]
    ELSE [ok |-> TRUE, self |-> [self EXCEPT !.state = "Active", !.updated_at = now]]

h_activate(self, now) ==
    IF participant_count(self.participants) < MinParticipants
    THEN [ok |-> FALSE, self |-> self]
    ELSE IF ~h_can_transition_to(self.state, "Active")
         THEN [ok |-> FALSE, self |-> self]
         ELSE [ok |-> TRUE, self |-> [self EXCEPT !.state = "Active", !.updated_at = now]]

\* dissolve ending the validity period before it consults the table
h_dissolve_ending_first(self, reason, now) ==
    IF ~h_can_transition_to(self.state, "Dissolved")
    THEN [ok |-> FALSE, self |-> [self EXCEPT !.validity = end(@, now, reason)]]
    ELSE [ok |-> TRUE,
          self |-> [self EXCEPT !.validity = end(@, now, reason),
                                !.state = "Dissolved", !.updated_at = now]]

h_dissolve(self, reason, now) ==
    IF ~h_can_transition_to(self.state, "Dissolved")
    THEN [ok |-> FALSE, self |-> self]
    ELSE [ok |-> TRUE,
          self |-> [self EXCEPT !.validity = end(@, now, reason),
                                !.state = "Dissolved", !.updated_at = now]]

h_clone_next(self, now) == [self EXCEPT !.version = self.version + 1, !.updated_at = now]

\* The ParticipantRoleChanged arm, re-adding with full weight
participant_role_changed_full_weight(next, event, now) ==
    LET removed == im_remove_participant(next.participants, event.participant) IN
    IF is_some(removed.entry)
    THEN [next EXCEPT !.participants =
            im_add_participant(removed.matrix, event.participant, event.new_role, 100, now)]
    ELSE [next EXCEPT !.participants = removed.matrix]

\* The ParticipantRoleChanged arm: remove, then re-add with the removed entry's weight
participant_role_changed(next, event, now) ==
    LET removed == im_remove_participant(next.participants, event.participant) IN
    IF is_some(removed.entry)
    THEN [next EXCEPT !.participants =
            im_add_participant(removed.matrix, event.participant, event.new_role,
                               removed.entry[1].weight, now)]
    ELSE [next EXCEPT !.participants = removed.matrix]

h_apply_event_pure(self, event, now) ==
    LET next == h_clone_next(self, now) IN
    CASE event.type = "HyperEdgeCreated" ->
            [next EXCEPT !.id = event.hyperedge_id, !.concept_id = event.concept_id,
                         !.name = event.name, !.category = event.category,
                         !.participants = event.initial_participants,
                         !.state = "Forming", !.created_at = event.created_at]
      [] event.type = "HyperEdgeActivated" -> [next EXCEPT !.state = "Active"]
      [] event.type = "ParticipantAdded" ->
            [next EXCEPT !.participants =
                im_add_participant(@, event.participant, event.role, event.weight, now)]
      [] event.type = "ParticipantRemoved" ->
            [next EXCEPT !.participants = im_remove_participant(@, event.participant).matrix]
      [] event.type = "ParticipantRoleChanged" -> participant_role_changed(next, event, now)
      [] event.type = "HyperEdgeTerminated" ->
            [next EXCEPT !.state = "Dissolved",
                         !.validity = end(@, event.terminated_at, event.reason)]
      [] event.type = "HyperEdgeQualityUpdated" ->
            [next EXCEPT !.quality = event.new_quality,
                         !.position = to_point3(to_quality_point(event.new_quality, now))]

h_apply_event_pure_call(self, event, now) ==
    [receiver |-> self, returned |-> h_apply_event_pure(self, event, now)]

----------------------------------------------------------------------------
\* Inputs: entity references, events, clock readings

P1 == EntityRef_new("Person", 1)
O1 == EntityRef_new("Organization", 2)

Reasons == {"end-of-contract"}

EdgeCreated(edge_id, source, target, created_at) ==
    [type |-> "EdgeCreated", edge_id |-> edge_id, concept_id |-> edge_id,
     source |-> source, target |-> target, category |-> "Employment",
     name |-> "Alice @ Acme", created_at |-> created_at]
EdgeActivated(edge_id) == [type |-> "EdgeActivated", edge_id |-> edge_id]
EdgeSuspended(edge_id, reason) ==
    [type |-> "EdgeSuspended", edge_id |-> edge_id, reason |-> reason]
EdgeTerminated(edge_id, reason, terminated_at) ==
    [type |-> "EdgeTerminated", edge_id |-> edge_id, reason |-> reason,
     terminated_at |-> terminated_at]
EdgeRejected(edge_id, reason) ==
    [type |-> "EdgeRejected", edge_id |-> edge_id, reason |-> reason]
EdgeQualityUpdated(edge_id, new_quality) ==
    [type |-> "QualityUpdated", edge_id |-> edge_id, new_quality |-> new_quality]
EdgeEvidenceAdded(edge_id, evidence_cid) ==
    [type |-> "EvidenceAdded", edge_id |-> edge_id, evidence_cid |-> evidence_cid]
EdgeKnowledgeProgressed(edge_id, to_level, new_confidence) ==
    [type |-> "KnowledgeProgressed", edge_id |-> edge_id, to_level |-> to_level,
     new_confidence |-> new_confidence]
EdgePropertyUpdated(edge_id, key, value) ==
    [type |-> "PropertyUpdated", edge_id |-> edge_id, key |-> key, value |-> value]

Employment == RelationshipQuality_new(70, 60, "Contractual", ongoing(0), 60)

CreatedEvents == {EdgeCreated(1, P1, O1, 0)}

LifecycleEvents ==
    {EdgeActivated(1), EdgeSuspended(1, Some("leave")), EdgeRejected(1, None)}
    \cup {EdgeTerminated(1, r, t) : r \in Reasons, t \in Times}

\* One event of every kind
EveryKind ==
    {EdgeCreated(2, O1, P1, 0), EdgeActivated(1), EdgeSuspended(1, Some("leave")),
     EdgeTerminated(1, "end-of-contract", 0), EdgeRejected(1, None),
     EdgeQualityUpdated(1, Employment), EdgeEvidenceAdded(1, "cid-a"),
     EdgeKnowledgeProgressed(1, "Known", 15), EdgePropertyUpdated(1, "note", "x")}

\* The event lists from_events is called with: every list over `menu`, to MaxLog
Logs(menu) == UNION {[1 .. n -> menu] : n \in 0 .. MaxLog}

\* Clock readings during one call of from_events over n events
ClockRuns(n) == {[i \in 1 .. n |-> t] : t \in Times}

----------------------------------------------------------------------------
\* The calls on an edge

Call(l, op, ok, arg) ==
    [op |-> op, ok |-> ok, arg |-> arg,
     repeated |-> l.op = op /\ l.ok = ok /\ l.arg = arg]

Constructed == edge # NoEdge

\* EdgeConcept::new
NewEdge(sources, targets) ==
    /\ edge = NoEdge /\ last.op = "init" /\ hyper = NoHyper
    /\ \E source \in sources, target \in targets, now \in Times :
          /\ edge' = EdgeConcept_new(1, 1, "Alice @ Acme", source, target, "Employment", now)
          /\ last' = Call(last, "new", TRUE, << source, target >>)
    /\ was_active' = FALSE
    /\ UNCHANGED besideEdge

\* EdgeConcept::from_events
FromEvents(logs) ==
    /\ edge = NoEdge /\ last.op = "init" /\ hyper = NoHyper
    /\ \E events \in logs :
          \E nows \in ClockRuns(Len(events)) :
             LET r == from_events(events, nows) IN
             /\ edge' = r.edge
             /\ last' = Call(last, "from_events", r.ok, [events |-> events, err |-> r.err])
             /\ was_active' = (r.ok /\ \E k \in 1 .. Len(events) :
                                  from_events(SubSeq(events, 1, k), nows).edge.state = "Active")
    /\ UNCHANGED besideEdge

\* A mutating lifecycle method: the receiver afterwards and the Result
Method(op, arg, r) ==
    /\ Constructed
    /\ edge' = r.self
    /\ last' = Call(last, op, r.ok, arg)
    /\ was_active' = (was_active \/ r.self.state = "Active")
    /\ UNCHANGED besideEdge

TransitionTo ==
    \E new_state \in EdgeStates, now \in Times :
       Method("transition_to", new_state, transition_to(edge, new_state, now))

Activate == \E now \in Times : Method("activate", "Active", activate(edge, now))

Suspend == \E now \in Times : Method("suspend", "Suspended", suspend(edge, now))

Resume == \E now \in Times : Method("resume", "Active", resume(edge, now))

Terminate ==
    \E reason \in Reasons, now \in Times :
       Method("terminate", "Terminated", terminate(edge, reason, now))

Reject == \E now \in Times : Method("reject", "Rejected", reject(edge, now))

\* EdgeConcept::apply_event_pure, the caller keeping the returned aggregate
ApplyEvent(menu, cap) ==
    /\ Constructed
    /\ edge.version < cap
    /\ \E event \in menu, now \in Times :
          /\ edge' = apply_event_pure(edge, event, now)
          /\ last' = Call(last, "apply_event_pure", TRUE, event)
    /\ was_active' = (was_active \/ edge'.state = "Active")
    /\ UNCHANGED besideEdge

InitCall == [op |-> "init", ok |-> TRUE, arg |-> << >>, repeated |-> FALSE]

NoSpace == [name |-> "None"]

NoSpaceCall == [op |-> "init", adds |-> 0, changed |-> FALSE]

NoCall == [fn |-> "none"]

Init ==
    /\ edge = NoEdge /\ last = InitCall /\ was_active = FALSE
    /\ hyper = NoHyper /\ hlast = InitCall
    /\ space = NoSpace /\ slast = NoSpaceCall
    /\ call = NoCall

----------------------------------------------------------------------------
\* Spec: the lifecycle of an edge, by the mutating methods and by replayed
\* lifecycle events

NewEmployment == NewEdge({P1}, {O1})

ReplayLifecycle == FromEvents(Logs(CreatedEvents \cup LifecycleEvents))

ApplyLifecycleEvent == ApplyEvent(CreatedEvents \cup LifecycleEvents, MaxVersion)

Next ==
    \/ NewEmployment
    \/ ReplayLifecycle
    \/ TransitionTo
    \/ Activate
    \/ Suspend
    \/ Resume
    \/ Terminate
    \/ Reject
    \/ ApplyLifecycleEvent

Spec == Init /\ [][Next]_vars

----------------------------------------------------------------------------
\* The calls on a hyperedge

HyperEdgeCreated(hyperedge_id, initial_participants, created_at) ==
    [type |-> "HyperEdgeCreated", hyperedge_id |-> hyperedge_id,
     concept_id |-> hyperedge_id, name |-> "Team Alpha", category |-> "Membership",
     initial_participants |-> initial_participants, created_at |-> created_at]
HyperEdgeActivated(hyperedge_id) ==
    [type |-> "HyperEdgeActivated", hyperedge_id |-> hyperedge_id]
ParticipantAdded(hyperedge_id, participant, role, weight) ==
    [type |-> "ParticipantAdded", hyperedge_id |-> hyperedge_id,
     participant |-> participant, role |-> role, weight |-> weight]
ParticipantRemoved(hyperedge_id, participant) ==
    [type |-> "ParticipantRemoved", hyperedge_id |-> hyperedge_id,
     participant |-> participant]
ParticipantRoleChanged(hyperedge_id, participant, new_role) ==
    [type |-> "ParticipantRoleChanged", hyperedge_id |-> hyperedge_id,
     participant |-> participant, new_role |-> new_role]
HyperEdgeTerminated(hyperedge_id, reason, terminated_at) ==
    [type |-> "HyperEdgeTerminated", hyperedge_id |-> hyperedge_id, reason |-> reason,
     terminated_at |-> terminated_at]
HyperEdgeQualityUpdated(hyperedge_id, new_quality) ==
    [type |-> "HyperEdgeQualityUpdated", hyperedge_id |-> hyperedge_id,
     new_quality |-> new_quality]

\* One hyperedge event of every kind
HyperEveryKind ==
    {HyperEdgeCreated(2, im_add_participant(IncidenceMatrix_new, P1, "Member", 100, 0), 0),
     HyperEdgeActivated(1),
     ParticipantAdded(1, P1, "Member", 150), ParticipantAdded(1, O1, "Primary", 50),
     ParticipantRemoved(1, P1), ParticipantRoleChanged(1, P1, "Leader"),
     HyperEdgeTerminated(1, "disbanded", 0), HyperEdgeQualityUpdated(1, Employment)}

HConstructed == hyper # NoHyper

\* HyperEdgeConcept::new
NewHyperEdge ==
    /\ hyper = NoHyper /\ hlast.op = "init" /\ edge = NoEdge /\ last.op = "init"
    /\ \E now \in Times :
          hyper' = HyperEdgeConcept_new(1, 1, "Team Alpha", "Membership", now)
    /\ hlast' = Call(hlast, "new", TRUE, << >>)
    /\ UNCHANGED besideHyper

\* HyperEdgeConcept::apply_event_pure, the caller keeping the returned aggregate
HApplyEvent(menu, cap) ==
    /\ HConstructed
    /\ hyper.version < cap
    /\ \E event \in menu, now \in Times :
          /\ hyper' = h_apply_event_pure(hyper, event, now)
          /\ hlast' = Call(hlast, "apply_event_pure", TRUE, event)
    /\ UNCHANGED besideHyper

----------------------------------------------------------------------------
\* SpecReducer: the reducers, over one event of every kind

ReplayEveryKind == FromEvents(Logs(EveryKind))

ApplyEveryKind == ApplyEvent(EveryKind, MaxVersion)

HApplyEveryKind == HApplyEvent(HyperEveryKind, MaxVersion)

NextReducer ==
    \/ NewEmployment
    \/ ReplayEveryKind
    \/ ApplyEveryKind
    \/ NewHyperEdge
    \/ HApplyEveryKind

SpecReducer == Init /\ [][NextReducer]_vars

----------------------------------------------------------------------------
\* SpecKnowledge: evidence and knowledge events on one edge.  Cids are
\* interchangeable, so the k-th distinct cid an edge receives is named k.
\* new_confidence is in tenths: 1.5 and -0.5.

KnownCids == 1 .. Min(Len(edge.evidence_cids) + 1, MaxCids)

KnowledgeMenu ==
    {EdgeEvidenceAdded(1, c) : c \in KnownCids}
    \cup {EdgeKnowledgeProgressed(1, "Known", 15), EdgeKnowledgeProgressed(1, "Suspected", -5)}

ApplyKnowledgeEvent == ApplyEvent(KnowledgeMenu, MaxCids + 1)

NextKnowledge ==
    \/ NewEmployment
    \/ ApplyKnowledgeEvent

SpecKnowledge == Init /\ [][NextKnowledge]_vars

----------------------------------------------------------------------------
\* SpecQuality: quality changes on an edge (with_quality, QualityUpdated) and
\* on a hyperedge (HyperEdgeQualityUpdated).  The arguments of
\* RelationshipQuality::new lie inside and outside [0, 1].

Qualities ==
    {RelationshipQuality_new(s, t, f, ongoing(0), 50) :
        s \in {-20, 70}, t \in {60, 150}, f \in {"Informal", "Legal"}}

QualityEvents == {EdgeQualityUpdated(1, q) : q \in Qualities}

\* EdgeConcept::with_quality
WithQuality ==
    \E quality \in Qualities, now \in Times :
       Method("with_quality", quality,
              [ok |-> TRUE, self |-> with_quality(edge, quality, now)])

ReplayQuality == FromEvents(Logs(CreatedEvents \cup QualityEvents))

ApplyQualityEvent == ApplyEvent(CreatedEvents \cup QualityEvents, MaxVersion)

HApplyQualityEvent ==
    HApplyEvent({HyperEdgeQualityUpdated(1, q) : q \in Qualities}
                   \cup {HyperEdgeCreated(2, IncidenceMatrix_new, 0)}, MaxVersion)

NextQuality ==
    \/ NewEmployment
    \/ WithQuality
    \/ ReplayQuality
    \/ ApplyQualityEvent
    \/ NewHyperEdge
    \/ HApplyQualityEvent

SpecQuality == Init /\ [][NextQuality]_vars

----------------------------------------------------------------------------
\* SpecCreation: edges created by new and by EdgeCreated events, over every
\* pair of endpoints and every creation time an event can carry; validity
\* periods set by with_validity and ended by EdgeTerminated events

CreationEvents ==
    {EdgeCreated(1, s, t, c) : s \in {P1, O1}, t \in {P1, O1}, c \in Times}
    \cup {EdgeActivated(1)}
    \cup {EdgeTerminated(1, "end-of-contract", t) : t \in Times}

NewAnyEdge == NewEdge({P1, O1}, {P1, O1})

\* EdgeConcept::with_validity(ValidityPeriod::fixed_term(..)), on a new edge
WithFixedTerm ==
    /\ last.op = "new"
    /\ \E starts_at \in Times, ends_at \in Times :
          Method("with_validity", << starts_at, ends_at >>,
                 [ok |-> TRUE, self |-> with_validity(edge, fixed_term(starts_at, ends_at))])

ReplayCreation == FromEvents(Logs(CreationEvents))

ApplyCreationEvent == ApplyEvent(CreationEvents, MaxVersion)

NextCreation ==
    \/ NewAnyEdge
    \/ WithFixedTerm
    \/ ReplayCreation
    \/ ApplyCreationEvent

SpecCreation == Init /\ [][NextCreation]_vars

----------------------------------------------------------------------------
\* SpecHyper: the lifecycle of a hyperedge, by its mutating methods

A1 == EntityRef_new("Agent", 3)

Members == {P1, O1, A1}

\* A mutating method of the hyperedge: the receiver afterwards and the Result
HMethod(op, arg, r) ==
    /\ HConstructed
    /\ hyper' = r.self
    /\ hlast' = Call(hlast, op, r.ok, arg)
    /\ UNCHANGED besideHyper

HAddParticipant ==
    \E entity_ref \in Members, now \in Times :
       HMethod("add_participant", entity_ref,
               h_add_participant(hyper, entity_ref, "Member", 100, now))

HRemoveParticipant ==
    \E entity_ref \in Members, now \in Times :
       HMethod("remove_participant", entity_ref,
               h_remove_participant(hyper, entity_ref, now))

HActivate == \E now \in Times : HMethod("activate", "Active", h_activate(hyper, now))

HDissolve ==
    \E now \in Times :
       HMethod("dissolve", "Dissolved", h_dissolve(hyper, "disbanded", now))

NextHyper ==
    \/ NewHyperEdge
    \/ HAddParticipant
    \/ HRemoveParticipant
    \/ HActivate
    \/ HDissolve

SpecHyper == Init /\ [][NextHyper]_vars

----------------------------------------------------------------------------
\* SpecParticipants: the participants of a hyperedge, added with different
\* roles and weights (0.5 and 1.5) and changed by ParticipantRoleChanged

Roles == {"Member", "Leader"}

Weights == {50, 150}

HAddParticipantAs ==
    \E entity_ref \in {P1, O1}, role \in Roles, weight \in Weights, now \in Times :
       HMethod("add_participant",
               [entity_ref |-> entity_ref, role |-> role, weight |-> weight,
                was_participant |-> im_contains(hyper.participants, entity_ref)],
               h_add_participant(hyper, entity_ref, role, weight, now))

HApplyRoleChanged ==
    HApplyEvent({ParticipantRoleChanged(1, r, role) : r \in {P1, O1}, role \in Roles},
                MaxVersion)

NextParticipants ==
    \/ NewHyperEdge
    \/ HAddParticipantAs
    \/ HApplyRoleChanged

SpecParticipants == Init /\ [][NextParticipants]_vars

----------------------------------------------------------------------------
\* RelationshipSpace

RelationshipSpace_new(name, now) ==
    [name |-> name, edges |-> EmptyMap, hyperedges |-> EmptyMap, tessellation |-> None,
     version |-> 0, created_at |-> now, updated_at |-> now]

\* add_edge leaving the tessellation in place
add_edge_keeping_tessellation(self, e, now) ==
    [self EXCEPT !.edges = insert(@, e.id, e), !.updated_at = now, !.version = @ + 1]

add_edge(self, e, now) ==
    [self EXCEPT !.edges = insert(@, e.id, e), !.updated_at = now, !.version = @ + 1,
                 !.tessellation = None]

add_hyperedge(self, h, now) ==
    [self EXCEPT !.hyperedges = insert(@, h.id, h), !.updated_at = now,
                 !.version = @ + 1, !.tessellation = None]

\* The positions a tessellation of the space is computed from
sites(self) ==
    {self.edges[k].position : k \in DOMAIN self.edges}
    \cup {self.hyperedges[k].position : k \in DOMAIN self.hyperedges}

----------------------------------------------------------------------------
\* SpecSpace: a relationship space, the aggregates added to it (also under an
\* id already taken) and the tessellation an external tessellator stores in it

SpaceEdges ==
    LET e(id) == EdgeConcept_new(id, id, "Alice @ Acme", P1, O1, "Employment", 0) IN
    {e(1), e(2), with_quality(e(1), Employment, 0), with_quality(e(2), Employment, 0)}

SpaceHyperEdges == {HyperEdgeConcept_new(1, 1, "Team Alpha", "Membership", 0)}

SConstructed == space # NoSpace

\* RelationshipSpace::new
NewSpace ==
    /\ space = NoSpace /\ edge = NoEdge /\ hyper = NoHyper
    /\ last.op = "init" /\ hlast.op = "init" /\ call = NoCall
    /\ \E now \in Times : space' = RelationshipSpace_new("Employment Relationships", now)
    /\ slast' = [op |-> "new", adds |-> 0, changed |-> FALSE]
    /\ UNCHANGED besideSpace

AddEdge ==
    /\ SConstructed /\ space.version < MaxVersion
    /\ \E e \in SpaceEdges, now \in Times : space' = add_edge(space, e, now)
    /\ slast' = [op |-> "add_edge", adds |-> slast.adds + 1, changed |-> TRUE]
    /\ UNCHANGED besideSpace

AddHyperEdge ==
    /\ SConstructed /\ space.version < MaxVersion
    /\ \E h \in SpaceHyperEdges, now \in Times : space' = add_hyperedge(space, h, now)
    /\ slast' = [op |-> "add_hyperedge", adds |-> slast.adds + 1, changed |-> TRUE]
    /\ UNCHANGED besideSpace

\* space.tessellation = Some(..): the field is public, the tessellator external
StoreTessellation ==
    /\ SConstructed
    /\ space' = [space EXCEPT !.tessellation = Some(sites(space))]
    /\ slast' = [slast EXCEPT !.op = "store_tessellation", !.changed = FALSE]
    /\ UNCHANGED besideSpace

NextSpace ==
    \/ NewSpace
    \/ AddEdge
    \/ AddHyperEdge
    \/ StoreTessellation

SpecSpace == Init /\ [][NextSpace]_vars

----------------------------------------------------------------------------
\* SpecPurity: the reducers as functions.  The caller of apply_event_pure
\* keeps the aggregate it passed beside the one returned; from_events is run
\* twice over one event list, each run with its own clock readings and ids.

ApplyRetaining ==
    /\ Constructed /\ edge.version < MaxVersion
    /\ \E event \in EveryKind, now \in Times :
          LET r == apply_event_pure_call(edge, event, now) IN
          /\ edge' = r.returned
          /\ last' = Call(last, "apply_event_pure", TRUE, event)
          /\ call' = [fn |-> "apply_event_pure", before |-> edge,
                      receiver |-> r.receiver, returned |-> r.returned]
    /\ was_active' = (was_active \/ edge'.state = "Active")
    /\ UNCHANGED << hyperVars, spaceVars >>

HApplyRetaining ==
    /\ HConstructed /\ hyper.version < MaxVersion
    /\ \E event \in HyperEveryKind, now \in Times :
          LET r == h_apply_event_pure_call(hyper, event, now) IN
          /\ hyper' = r.returned
          /\ hlast' = Call(hlast, "apply_event_pure", TRUE, event)
          /\ call' = [fn |-> "h_apply_event_pure", before |-> hyper,
                      receiver |-> r.receiver, returned |-> r.returned]
    /\ UNCHANGED << edgeVars, spaceVars >>

FreshIds == {7, 8}

ReplayMenu ==
    CreatedEvents \cup {EdgeActivated(1), EdgeEvidenceAdded(1, "cid-a"),
                        EdgePropertyUpdated(1, "note", "x"),
                        EdgePropertyUpdated(1, "tag", "y")}

FromEventsTwice ==
    /\ call = NoCall /\ edge = NoEdge /\ hyper = NoHyper
    /\ \E events \in Logs(ReplayMenu) :
          \E nows1 \in ClockRuns(Len(events)), nows2 \in ClockRuns(Len(events)) :
             \E id1 \in FreshIds, id2 \in FreshIds :
                call' = [fn |-> "from_events", events |-> events,
                         nows |-> << nows1, nows2 >>,
                         runs |-> << from_events_run(events, nows1, id1),
                                     from_events_run(events, nows2, id2) >>]
    /\ UNCHANGED besideCall

NextPurity ==
    \/ NewEmployment
    \/ ApplyRetaining
    \/ NewHyperEdge
    \/ HApplyRetaining
    \/ FromEventsTwice

SpecPurity == Init /\ [][NextPurity]_vars

----------------------------------------------------------------------------
\* SpecRoundTrip: an edge driven by its methods, beside the list of the events
\* that correspond to the accepted calls

\* The event that records an accepted call
emitted(op, arg, now) ==
    CASE op = "with_quality" -> EdgeQualityUpdated(1, arg)
      [] op = "activate" -> EdgeActivated(1)
      [] op = "suspend" -> EdgeSuspended(1, None)
      [] op = "resume" -> EdgeActivated(1)
      [] op = "terminate" -> EdgeTerminated(1, arg, now)
      [] op = "reject" -> EdgeRejected(1, None)

CreateTracked ==
    /\ edge = NoEdge /\ last.op = "init" /\ hyper = NoHyper /\ call = NoCall
    /\ \E now \in Times :
          /\ edge' = EdgeConcept_new(1, 1, "Alice @ Acme", P1, O1, "Employment", now)
          /\ call' = [fn |-> "emitted", events |-> << EdgeCreated(1, P1, O1, now) >>]
    /\ last' = Call(last, "new", TRUE, << P1, O1 >>)
    /\ was_active' = FALSE
    /\ UNCHANGED << hyperVars, spaceVars >>

\* An accepted call and its event
Tracked(op, arg, r, now) ==
    /\ Constructed /\ call.fn = "emitted" /\ Len(call.events) <= MaxLog
    /\ r.ok
    /\ edge' = r.self
    /\ last' = Call(last, op, TRUE, arg)
    /\ was_active' = (was_active \/ r.self.state = "Active")
    /\ call' = [call EXCEPT !.events = Append(@, emitted(op, arg, now))]
    /\ UNCHANGED << hyperVars, spaceVars >>

OperateTracked ==
    \E now \in Times :
       \/ \E quality \in Qualities :
             Tracked("with_quality", quality,
                     [ok |-> last.op = "new", self |-> with_quality(edge, quality, now)], now)
       \/ Tracked("activate", "Active", activate(edge, now), now)
       \/ Tracked("suspend", "Suspended", suspend(edge, now), now)
       \/ Tracked("resume", "Active", resume(edge, now), now)
       \/ Tracked("terminate", "end-of-contract", terminate(edge, "end-of-contract", now), now)
       \/ Tracked("reject", "Rejected", reject(edge, now), now)

NextRoundTrip ==
    \/ CreateTracked
    \/ OperateTracked

SpecRoundTrip == Init /\ [][NextRoundTrip]_vars

----------------------------------------------------------------------------
\* SpecQualityPoint: the functions of the quality model, called with values
\* inside and outside [0, 1] and with NaN, and with validity periods that
\* started long ago, start in the future or last longer than a year

FormalityValues == (0 - 20) .. MaxCoordinate

Coordinates == {-100, 50, 200, NaN}

Durations ==
    {ongoing(d) : d \in {-400, 0, 400}}
    \cup {fixed_term(-400, 0), end(ongoing(0), 0, "done")}

\* Formality::from_f64
FormalityFromF64 ==
    /\ call = NoCall /\ edge = NoEdge /\ hyper = NoHyper /\ space = NoSpace
    /\ \E value \in FormalityValues :
          call' = [fn |-> "from_f64", value |-> value, result |-> from_f64(value)]
    /\ UNCHANGED besideCall

\* QualityPoint::new
QualityPointNew ==
    /\ call = NoCall /\ edge = NoEdge /\ hyper = NoHyper /\ space = NoSpace
    /\ \E s \in Coordinates, t \in Coordinates, f \in Coordinates,
          d \in Coordinates, r \in Coordinates :
          call' = [fn |-> "QualityPoint_new", args |-> << s, t, f, d, r >>,
                   result |-> QualityPoint_new(s, t, f, d, r)]
    /\ UNCHANGED besideCall

\* RelationshipQuality::new(..).to_quality_point()
ToQualityPoint ==
    /\ call = NoCall /\ edge = NoEdge /\ hyper = NoHyper /\ space = NoSpace
    /\ \E s \in Coordinates, t \in Coordinates, f \in Formalities,
          d \in Durations, r \in Coordinates, now \in Times :
          LET q == RelationshipQuality_new(s, t, f, d, r) IN
          call' = [fn |-> "to_quality_point", args |-> q, now |-> now,
                   result |-> to_quality_point(q, now)]
    /\ UNCHANGED besideCall

NextQualityPoint ==
    \/ FormalityFromF64
    \/ QualityPointNew
    \/ ToQualityPoint

SpecQualityPoint == Init /\ [][NextQualityPoint]_vars

----------------------------------------------------------------------------
\* Claims on the edge lifecycle (Spec)

LifecycleOps == {"activate", "suspend", "resume", "terminate", "reject"}

LegalPairs ==
    { << "Proposed", "Active" >>, << "Proposed", "Rejected" >>,
      << "Active", "Suspended" >>, << "Active", "Terminated" >>,
      << "Suspended", "Active" >>, << "Suspended", "Terminated" >> }

\* C1: transition_to(t) on an edge in state s succeeds, leaving the edge in
\* state t, exactly when (s, t) is one of the six legal pairs; for every other
\* pair it returns an error (and the state stays s).
C1_TransitionTable ==
    [][last'.op = "transition_to" =>
          /\ last'.ok <=> << edge.state, last'.arg >> \in LegalPairs
          /\ edge'.state = IF last'.ok THEN last'.arg ELSE edge.state]_vars

\* C1 witness: transition_to(Terminated) was accepted (from Active or from
\* Suspended) on an edge that had been suspended.
C1_Witness ==
    /\ last.op = "transition_to" /\ last.ok /\ last.arg = "Terminated"
    /\ edge.state = "Terminated" /\ "suspension_reason" \in DOMAIN edge.properties

\* C2: every lifecycle operation is either accepted and advances the state, or
\* rejected and leaves the whole aggregate unchanged (state, validity period
\* with ends_at and end_reason, version, properties).
C2_Totality ==
    [][last'.op \in LifecycleOps =>
          IF last'.ok
          THEN edge'.state = last'.arg /\ edge'.state # edge.state
          ELSE /\ edge'.state = edge.state
               /\ edge'.validity = edge.validity
               /\ edge'.version = edge.version
               /\ edge'.properties = edge.properties]_vars

\* C3: the edge is in state Terminated only if it was in state Active at some
\* earlier point of its history.
C3_TerminatedWasActive == Constructed /\ edge.state = "Terminated" => was_active

\* C4: once an edge is Terminated or Rejected, no later lifecycle operation and
\* no later applied event changes its state.
C4_TerminalIsFinal ==
    [][Constructed /\ is_terminal(edge.state) => edge'.state = edge.state]_vars

\* C6: every accepted lifecycle operation raises the edge's version by exactly
\* one, so that the happy path has versions 0, 1, 2, 3, 4.
C6_AcceptedOperationBumpsVersion ==
    [][last'.op \in LifecycleOps /\ last'.ok => edge'.version = edge.version + 1]_vars

\* C14: once a validity period's ends_at is set, no later terminate call
\* (accepted or rejected) and no later EdgeTerminated event alters its ends_at
\* or end_reason.
C14_EndIsFinal ==
    [][Constructed /\ is_some(edge.validity.ends_at) =>
          /\ edge'.validity.ends_at = edge.validity.ends_at
          /\ edge'.validity.end_reason = edge.validity.end_reason]_vars

----------------------------------------------------------------------------
\* Claims on the reducers (SpecReducer)

\* C5: from_events over a history of n >= 1 events returns an edge with
\* version n - 1; every apply_event_pure call on an edge or a hyperedge returns
\* an aggregate whose version is the input's version plus one, whatever the
\* event; version never decreases.
C5_VersionCountsEvents ==
    [][/\ last'.op = "from_events" /\ last'.ok =>
             edge'.version = Len(last'.arg.events) - 1
       /\ last'.op = "apply_event_pure" => edge'.version = edge.version + 1
       /\ hlast'.op = "apply_event_pure" => hyper'.version = hyper.version + 1
       /\ Constructed /\ edge' # NoEdge => edge'.version >= edge.version
       /\ HConstructed /\ hyper' # NoHyper => hyper'.version >= hyper.version]_vars

\* C5 witness: an EdgeCreated event applied to an edge that had been Active
\* has brought it to version 2, back in state Proposed.
C5_Witness ==
    /\ last.op = "apply_event_pure" /\ last.arg.type = "EdgeCreated"
    /\ edge.version = 2 /\ edge.state = "Proposed" /\ was_active

\* The left fold of apply_event_pure over events[2..], from the aggregate
\* from_events builds for the single event events[1]
RECURSIVE C7_Fold(_, _)
C7_Fold(events, t) ==
    IF Len(events) = 1 THEN from_events(events, << t >>).edge
    ELSE apply_event_pure(C7_Fold(SubSeq(events, 1, Len(events) - 1), t),
                          events[Len(events)], t)

C7_SameButUpdatedAt(a, b) == [a EXCEPT !.updated_at = 0] = [b EXCEPT !.updated_at = 0]

\* C7: from_events fails with InvalidRelationship on an empty list and on a
\* list whose first event is not EdgeCreated; on every list that starts with
\* EdgeCreated it succeeds and returns the left fold of the remaining events
\* over the aggregate built from the first event (Proposed, version 0, no
\* evidence, confidence 0).
C7_FromEvents ==
    last.op = "from_events" =>
        LET events == last.arg.events IN
        /\ last.ok <=> (Len(events) > 0 /\ events[1].type = "EdgeCreated")
        /\ ~last.ok => edge = NoEdge /\ last.arg.err = "InvalidRelationship"
        /\ last.ok => \E t \in Times : C7_SameButUpdatedAt(edge, C7_Fold(events, t))
        /\ last.ok /\ Len(events) = 1 =>
              /\ edge.state = "Proposed" /\ edge.version = 0
              /\ edge.evidence_cids = << >> /\ edge.confidence = 0
              /\ edge.id = events[1].edge_id /\ edge.source = events[1].source
              /\ edge.target = events[1].target

\* C7 witness: from_events succeeded on three events, the last two being an
\* activation and an evidence event.
C7_Witness ==
    /\ last.op = "from_events" /\ last.ok /\ Len(last.arg.events) = 3
    /\ edge.state = "Active" /\ edge.evidence_cids = << "cid-a" >> /\ edge.version = 2

----------------------------------------------------------------------------
\* Claims on evidence and confidence (SpecKnowledge)

C8_Repeated ==
    last'.op = "apply_event_pure" /\ last'.arg.type = "EvidenceAdded" /\ last'.repeated

\* C8 as claimed: applying the same EdgeEvidenceAdded event twice produces the
\* same aggregate, in every field other than updated_at (version included), as
\* applying it once.
C8_IdempotentEvidence ==
    [][C8_Repeated => [edge' EXCEPT !.updated_at = 0] = [edge EXCEPT !.updated_at = 0]]_vars

\* C8 as amended: applying the same EdgeEvidenceAdded event twice produces the
\* same aggregate, in every field other than updated_at and version, as
\* applying it once; the version is one higher.
C8_IdempotentButVersion ==
    [][C8_Repeated =>
          /\ [edge' EXCEPT !.updated_at = 0, !.version = 0]
                = [edge EXCEPT !.updated_at = 0, !.version = 0]
          /\ edge'.version = edge.version + 1]_vars

\* C8 witness: the same evidence event has been applied twice in a row to an
\* edge that holds three cids.
C8_Witness ==
    /\ last.op = "apply_event_pure" /\ last.arg.type = "EvidenceAdded" /\ last.repeated
    /\ Len(edge.evidence_cids) = 3 /\ edge.confidence = 3

\* C9: in every edge aggregate reachable by any event sequence,
\* 0 <= confidence <= 1 (confidence is kept in tenths).
C9_ConfidenceInUnitInterval == Constructed => 0 <= edge.confidence /\ edge.confidence <= 10

C10_Distinct(cids) == Cardinality({cids[i] : i \in 1 .. Len(cids)})

\* C10: immediately after an EvidenceAdded event is applied, confidence equals
\* min(k / 10, 1), k being the number of distinct evidence cids the edge holds.
C10_ConfidenceFromEvidence ==
    last.op = "apply_event_pure" /\ last.arg.type = "EvidenceAdded" =>
        edge.confidence = (IF C10_Distinct(edge.evidence_cids) >= 10 THEN 10
                           ELSE C10_Distinct(edge.evidence_cids))

\* C10 witness: the eleventh distinct cid has been added and confidence is 1.0.
C10_Witness ==
    /\ last.op = "apply_event_pure" /\ last.arg.type = "EvidenceAdded"
    /\ ~last.repeated /\ last.arg.evidence_cid = 11
    /\ Len(edge.evidence_cids) = 11 /\ edge.confidence = 10

----------------------------------------------------------------------------
\* Claims on the quality position (SpecQuality)

\* C11: in every reachable edge and hyperedge aggregate (after new,
\* with_quality, from_events and every applied event) position equals
\* (strength, trust, formality) of the current quality.
C11_PositionIsProjection ==
    /\ Constructed =>
          edge.position = << edge.quality.strength, edge.quality.trust,
                             as_f64(edge.quality.formality) >>
    /\ HConstructed =>
          hyper.position = << hyper.quality.strength, hyper.quality.trust,
                              as_f64(hyper.quality.formality) >>

\* C11 witness: a QualityUpdated event whose quality was built from strength
\* -0.2, trust 1.5 and formality Legal is the first event applied to an edge.
C11_Witness ==
    /\ last.op = "apply_event_pure" /\ last.arg.type = "QualityUpdated"
    /\ edge.version = 1 /\ edge.quality.formality = "Legal"
    /\ edge.position = << 0, 100, 100 >>

----------------------------------------------------------------------------
\* Claims on creation (SpecCreation)

\* C12: every edge aggregate has source # target: new, from_events and
\* apply_event_pure reject a creation whose endpoints are the same entity
\* reference, so no such edge exists.
C12_NoReflexiveEdge == Constructed => edge.source # edge.target

\* C13: in every edge aggregate reachable by any event sequence and any clock
\* readings, updated_at >= created_at.
C13_UpdatedNotBeforeCreated == Constructed => edge.updated_at >= edge.created_at

\* C15: every validity period with ends_at set has starts_at <= ends_at,
\* whether built by fixed_term or ended by an EdgeTerminated event with an
\* arbitrary terminated_at.
C15_StartsBeforeEnds ==
    Constructed /\ is_some(edge.validity.ends_at) =>
        edge.validity.starts_at <= edge.validity.ends_at[1]

----------------------------------------------------------------------------
\* Claims on the hyperedge lifecycle (SpecHyper, SpecReducer)

HLegalPairs ==
    { << "Forming", "Active" >>, << "Forming", "Dissolved" >>,
      << "Active", "Restructuring" >>, << "Active", "Dissolved" >>,
      << "Restructuring", "Active" >>, << "Restructuring", "Dissolved" >> }

HCount(h) == Cardinality(DOMAIN h.participants)

\* C16: for every pair of hyperedge states (s, t), can_transition_to is true
\* exactly for the six legal pairs, and activate / dissolve change the state
\* only along one of these pairs (activate with at least 2 participants).
C16_HyperTransitionTable ==
    [][/\ \A s \in HyperEdgeStates, t \in HyperEdgeStates :
             h_can_transition_to(s, t) <=> << s, t >> \in HLegalPairs
       /\ hlast'.op \in {"activate", "dissolve"} =>
             /\ hlast'.ok <=> hyper'.state # hyper.state
             /\ hlast'.ok => /\ << hyper.state, hyper'.state >> \in HLegalPairs
                             /\ hyper'.state = hlast'.arg
             /\ hlast'.ok /\ hlast'.op = "activate" => HCount(hyper) >= 2]_vars

\* C16 witness: dissolve was accepted on a hyperedge of three participants.
C16_Witness ==
    /\ hlast.op = "dissolve" /\ hlast.ok /\ hyper.state = "Dissolved"
    /\ is_some(hyper.validity.ends_at) /\ HCount(hyper) = 3

\* C17: an Active hyperedge has an operation or an applied event that takes it
\* to Restructuring.
C17_RestructuringReachable ==
    HConstructed /\ hyper.state = "Active" =>
        ENABLED ((NextHyper \/ HApplyEveryKind) /\ hyper'.state = "Restructuring")

\* C18: activate on a hyperedge with fewer than 2 participants fails and leaves
\* state and participants unchanged; on a Forming hyperedge with 2 or more
\* participants it succeeds and the state becomes Active.
C18_ActivationNeedsTwo ==
    [][hlast'.op = "activate" =>
          /\ HCount(hyper) < 2 =>
                /\ ~hlast'.ok
                /\ hyper'.state = hyper.state
                /\ hyper'.participants = hyper.participants
          /\ HCount(hyper) >= 2 /\ hyper.state = "Forming" =>
                hlast'.ok /\ hyper'.state = "Active"]_vars

\* C18 witness: activate has failed on a Forming hyperedge of one participant.
C18_Witness ==
    /\ hlast.op = "activate" /\ ~hlast.ok
    /\ hyper.state = "Forming" /\ HCount(hyper) = 1

\* C19: in every hyperedge aggregate produced by a sequence of applied events,
\* whenever the state is Active or Restructuring the participant count is at
\* least 2.
C19_ActiveHasTwo ==
    HConstructed /\ hyper.state \in {"Active", "Restructuring"} => HCount(hyper) >= 2

\* The participant count a removal of entity_ref would leave
C20_CountWithout(h, entity_ref) ==
    Cardinality((DOMAIN h.participants) \ {to_string(entity_ref)})

\* C20 as claimed: remove_participant fails exactly when the removal would
\* leave fewer than 2 participants (or the hyperedge is Dissolved), and a
\* failed removal leaves the participants unchanged.
C20_RemovalFailsBelowTwo ==
    [][hlast'.op = "remove_participant" =>
          /\ ~hlast'.ok <=> \/ hyper.state = "Dissolved"
                            \/ C20_CountWithout(hyper, hlast'.arg) < 2
          /\ ~hlast'.ok => hyper'.participants = hyper.participants]_vars

\* C20 as amended: remove_participant fails exactly when the hyperedge is
\* Dissolved or holds at most 2 participants, whether or not the reference is
\* one of them; a failed removal leaves the participants unchanged, an accepted
\* one leaves the participants without the reference; with exactly 2
\* participants in an Active hyperedge the removal fails and the count stays 2.
C20_RemovalFailsAtTwo ==
    [][hlast'.op = "remove_participant" =>
          /\ ~hlast'.ok <=> (hyper.state = "Dissolved" \/ HCount(hyper) <= 2)
          /\ ~hlast'.ok => hyper'.participants = hyper.participants
          /\ hlast'.ok =>
                /\ DOMAIN hyper'.participants =
                      (DOMAIN hyper.participants) \ {to_string(hlast'.arg)}
                /\ \A k \in DOMAIN hyper'.participants :
                      hyper'.participants[k] = hyper.participants[k]
          /\ hyper.state = "Active" /\ HCount(hyper) = 2 =>
                ~hlast'.ok /\ HCount(hyper') = 2]_vars

\* C20 witness: the removal of one of the two participants of an Active
\* hyperedge has failed.
C20_Witness ==
    /\ hlast.op = "remove_participant" /\ ~hlast.ok
    /\ hyper.state = "Active" /\ HCount(hyper) = 2
    /\ to_string(hlast.arg) \in DOMAIN hyper.participants

\* C21: on a Dissolved hyperedge every call of add_participant,
\* remove_participant, activate and dissolve fails and leaves participants,
\* state and validity period unchanged.
C21_DissolvedIsFrozen ==
    [][/\ HConstructed /\ hyper.state = "Dissolved"
       /\ hlast'.op \in {"add_participant", "remove_participant", "activate", "dissolve"}
       => /\ ~hlast'.ok
          /\ hyper'.participants = hyper.participants
          /\ hyper'.state = hyper.state
          /\ hyper'.validity = hyper.validity]_vars

\* C21 witness: add_participant has failed on a Dissolved hyperedge of two
\* participants, for an entity that is not one of them.
C21_Witness ==
    /\ hlast.op = "add_participant" /\ ~hlast.ok /\ hyper.state = "Dissolved"
    /\ HCount(hyper) = 2 /\ to_string(hlast.arg) \notin DOMAIN hyper.participants

----------------------------------------------------------------------------
\* Claims on the participants of a hyperedge (SpecParticipants)

\* add_participant was called for an entity that was a participant already
AddedAgain == hlast'.op = "add_participant" /\ hlast'.arg.was_participant

\* The key of the entity the call was about
AddedKey == to_string(hlast'.arg.entity_ref)

\* The weight given to the call, as a weight in [0, 1]
AddedWeight ==
    IF hlast'.arg.weight > 100 THEN 100
    ELSE IF hlast'.arg.weight < 0 THEN 0 ELSE hlast'.arg.weight

\* C22: no participant appears twice in an incidence matrix: adding an entity
\* whose reference is already present leaves participant_count unchanged and
\* replaces that entry's role and weight with the newly given ones (the weight
\* brought into [0, 1]).
C22_NoParticipantTwice ==
    [][/\ HConstructed /\ hyper' # NoHyper =>
             Cardinality({hyper'.participants[k].entity_ref : k \in DOMAIN hyper'.participants})
                = HCount(hyper')
       /\ AddedAgain =>
             /\ HCount(hyper') = HCount(hyper)
             /\ hyper'.participants[AddedKey].role = hlast'.arg.role
             /\ hyper'.participants[AddedKey].weight = AddedWeight]_vars

\* C22 witness: a Member of weight 0.5 has been added again, as Leader with
\* weight 1.5, beside another participant.
C22_Witness ==
    /\ hlast.op = "add_participant" /\ hlast.arg.was_participant
    /\ hlast.arg.role = "Leader" /\ hlast.arg.weight = 150
    /\ hyper.participants[to_string(hlast.arg.entity_ref)].weight = 100
    /\ HCount(hyper) = 2

C24_RoleChangeKeepsWeight ==
    [][hlast'.op = "apply_event_pure" /\ hlast'.arg.type = "ParticipantRoleChanged" =>
          LET key == to_string(hlast'.arg.participant) IN
          IF key \in DOMAIN hyper.participants
          THEN /\ hyper'.participants[key].role = hlast'.arg.new_role
               /\ hyper'.participants[key].weight = hyper.participants[key].weight
               /\ DOMAIN hyper'.participants = DOMAIN hyper.participants
               /\ \A k \in (DOMAIN hyper.participants) \ {key} :
                     hyper'.participants[k] = hyper.participants[k]
          ELSE hyper'.participants = hyper.participants]_vars

\* C24 witness: the role of a participant of weight 0.5 has been changed to
\* Leader, beside a Member of weight 1.0.
C24_Witness ==
    /\ hlast.op = "apply_event_pure" /\ hlast.arg.type = "ParticipantRoleChanged"
    /\ HCount(hyper) = 2 /\ hlast.arg.new_role = "Leader"
    /\ \E k \in DOMAIN hyper.participants :
          /\ k = to_string(hlast.arg.participant)
          /\ hyper.participants[k].role = "Leader" /\ hyper.participants[k].weight = 50
    /\ \E k \in DOMAIN hyper.participants :
          hyper.participants[k].role = "Member" /\ hyper.participants[k].weight = 100

----------------------------------------------------------------------------
\* Claims on the relationship space (SpecSpace)

\* C25: every add_edge and add_hyperedge, one that overwrites an aggregate
\* stored under the same id included, leaves tessellation None and raises the
\* space version by exactly one; whenever tessellation is present no add
\* happened since it was stored (it is that of the present members), and the
\* version equals the number of add calls.
C25_AddClearsTessellation ==
    [][/\ slast'.op \in {"add_edge", "add_hyperedge"} =>
             space'.tessellation = None /\ space'.version = space.version + 1
       /\ space' # NoSpace =>
             /\ is_some(space'.tessellation) =>
                   ~slast'.changed /\ space'.tessellation[1] = sites(space')
             /\ space'.version = slast'.adds]_vars

\* C25 witness: an edge has been added under an id already taken: after two
\* adds the space holds one edge, of the Employment quality, at version 2 and
\* no tessellation.
C25_Witness ==
    /\ slast.op = "add_edge" /\ space.version = 2
    /\ DOMAIN space.edges = {1} /\ space.edges[1].position = << 70, 60, 75 >>
    /\ space.tessellation = None /\ space.hyperedges = EmptyMap

----------------------------------------------------------------------------
\* Claims on the reducers as functions (SpecPurity)

----------------------------------------------------------------------------
\* Claims on the round trip (SpecRoundTrip)

\* C28: an edge that is created and then driven through accepted operations
\* is equal, field by field except updated_at, to the edge from_events returns
\* for the corresponding events (under some clock readings of the replay).
C28_RoundTrip ==
    call.fn = "emitted" =>
        \E nows \in ClockRuns(Len(call.events)) :
           LET replayed == from_events(call.events, nows) IN
           /\ replayed.ok
           /\ [replayed.edge EXCEPT !.updated_at = 0] = [edge EXCEPT !.updated_at = 0]

----------------------------------------------------------------------------
\* Claims on the quality model (SpecQualityPoint)

\* C29: for each of the five rungs R, from_f64(R.as_f64()) = R, and the
\* buckets of from_f64 are bounded by 1/8, 3/8, 5/8, 7/8.
C29_FormalityRoundTrip ==
    call.fn = "from_f64" =>
        /\ \A R \in Formalities : call.value = as_f64(R) => call.result = R
        /\ call.result = "Informal" <=> 8 * call.value < 100
        /\ call.result = "SemiFormal" <=> 100 <= 8 * call.value /\ 8 * call.value < 300
        /\ call.result = "Formal" <=> 300 <= 8 * call.value /\ 8 * call.value < 500
        /\ call.result = "Contractual" <=> 500 <= 8 * call.value /\ 8 * call.value < 700
        /\ call.result = "Legal" <=> 700 <= 8 * call.value

\* C29 witness: from_f64 was called with 0.75, the value of Contractual.
C29_Witness ==
    /\ call.fn = "from_f64" /\ call.value = as_f64("Contractual")
    /\ call.result = "Contractual"

\* C30: every quality point obtained from QualityPoint::new or from
\* to_quality_point has all five coordinates in [0, 1], for all inputs.
C30_CoordinatesInUnitInterval ==
    call.fn \in {"QualityPoint_new", "to_quality_point"} =>
        \A c \in {call.result.strength, call.result.trust, call.result.formality,
                  call.result.duration, call.result.reciprocity} :
           0 <= c /\ c <= 100

----------------------------------------------------------------------------
\* Claims on the addressing of events (SpecReducer)

\* C31: the edge reducer applies an event only to the aggregate it addresses:
\* an event other than the creating one whose edge_id differs from the
\* aggregate's id has no effect, and in every history the aggregate's id,
\* source and target remain those established by the first EdgeCreated event.
C31_EventAddressesAggregate ==
    [][/\ Constructed /\ last'.op = "apply_event_pure" =>
             /\ last'.arg.type # "EdgeCreated" /\ last'.arg.edge_id # edge.id =>
                   edge' = edge
             /\ edge'.id = edge.id
             /\ edge'.source = edge.source
             /\ edge'.target = edge.target
       /\ last'.op = "from_events" /\ last'.ok =>
             /\ edge'.id = last'.arg.events[1].edge_id
             /\ edge'.source = last'.arg.events[1].source
             /\ edge'.target = last'.arg.events[1].target]_vars

\* C32: UpdateQuality is legal exactly in the non-terminal edge states: in
\* Proposed, Active and Suspended a QualityUpdated event replaces the quality
\* by new_quality, and once the edge is Terminated or Rejected its quality
\* and position no longer change.
C32_QualityFrozenWhenTerminal ==
    [][Constructed =>
          /\ /\ ~is_terminal(edge.state)
             /\ last'.op = "apply_event_pure" /\ last'.arg.type = "QualityUpdated"
             => edge'.quality = last'.arg.new_quality
          /\ is_terminal(edge.state) =>
                edge'.quality = edge.quality /\ edge'.position = edge.position]_vars

----------------------------------------------------------------------------
\* SpecEvidence: evidence events with two named cids, in either order and
\* repeated, and a KnowledgeProgressed event that sets confidence to 0.8;
\* applied one by one and replayed by from_events

EvidenceMenu ==
    {EdgeEvidenceAdded(1, c) : c \in {"cid-a", "cid-b"}}
    \cup {EdgeKnowledgeProgressed(1, "Known", 8)}

ReplayEvidence == FromEvents(Logs(CreatedEvents \cup EvidenceMenu))

\* EdgeConcept::apply_event_pure, the caller keeping the returned aggregate
\* and noting the confidence the edge had before
ApplyEvidenceEvent ==
    /\ Constructed
    /\ edge.version < MaxVersion
    /\ \E event \in EvidenceMenu, now \in Times :
          /\ edge' = apply_event_pure(edge, event, now)
          /\ last' = Call(last, "apply_event_pure", TRUE,
                          [event |-> event, confidence_before |-> edge.confidence])
    /\ UNCHANGED was_active
    /\ UNCHANGED besideEdge

NextEvidence ==
    \/ NewEmployment
    \/ ReplayEvidence
    \/ ApplyEvidenceEvent

SpecEvidence == Init /\ [][NextEvidence]_vars

----------------------------------------------------------------------------
\* Claims on the evidence list (SpecEvidence)

\* The cids of the EvidenceAdded events of a history, each once, in order of
\* first occurrence
RECURSIVE FirstOccurrences(_, _)
FirstOccurrences(seen, events) ==
    IF events = << >> THEN seen
    ELSE LET e == Head(events) IN
         FirstOccurrences(IF e.type = "EvidenceAdded" /\ ~contains(seen, e.evidence_cid)
                          THEN Append(seen, e.evidence_cid) ELSE seen,
                          Tail(events))

\* C33: evidence_cids has set semantics with insertion order preserved: after
\* any event sequence it contains no cid twice, contains exactly the cids of
\* the EvidenceAdded events applied so far, in order of their first
\* occurrence, and never shrinks.
C33_EvidenceIsOrderedSet ==
    [][/\ last'.op = "new" => edge'.evidence_cids = << >>
       /\ last'.op = "from_events" /\ last'.ok =>
             edge'.evidence_cids = FirstOccurrences(<< >>, last'.arg.events)
       /\ last'.op = "apply_event_pure" =>
             /\ edge'.evidence_cids =
                   FirstOccurrences(edge.evidence_cids, << last'.arg.event >>)
             /\ Len(edge'.evidence_cids) >= Len(edge.evidence_cids)
       /\ edge' # NoEdge =>
             \A i, j \in 1 .. Len(edge'.evidence_cids) :
                edge'.evidence_cids[i] = edge'.evidence_cids[j] => i = j]_vars

\* C33 witness: cid-b, then cid-a, then cid-b again have been applied, and the
\* list holds cid-b before cid-a, each once.
C33_Witness ==
    /\ last.op = "apply_event_pure" /\ last.arg.event.type = "EvidenceAdded"
    /\ last.arg.event.evidence_cid = "cid-b"
    /\ edge.version = 3
    /\ edge.evidence_cids = << "cid-b", "cid-a" >>

\* An EvidenceAdded event is being applied whose cid the edge already holds
C34_AlreadyPresent ==
    /\ last'.op = "apply_event_pure" /\ last'.arg.event.type = "EvidenceAdded"
    /\ contains(edge.evidence_cids, last'.arg.event.evidence_cid)

\* C34 as claimed: applying an EvidenceAdded event whose cid is already in
\* evidence_cids leaves both evidence_cids and confidence unchanged, also when
\* an earlier KnowledgeProgressed event had overridden the confidence.
C34_PresentCidIsNoOp ==
    [][C34_AlreadyPresent =>
          /\ edge'.evidence_cids = edge.evidence_cids
          /\ edge'.confidence = edge.confidence]_vars

\* C34 as amended: applying an EvidenceAdded event whose cid is already in
\* evidence_cids leaves evidence_cids and knowledge_level unchanged and sets
\* confidence to min(|evidence_cids| / 10, 1); so confidence is unchanged
\* unless a KnowledgeProgressed event had overridden it, and then the
\* overriding value is lost.
C34_PresentCidRecomputesConfidence ==
    [][C34_AlreadyPresent =>
          /\ edge'.evidence_cids = edge.evidence_cids
          /\ edge'.knowledge_level = edge.knowledge_level
          /\ edge'.confidence = Min(Len(edge.evidence_cids), 10)
          /\ edge.confidence = Min(Len(edge.evidence_cids), 10) =>
                edge'.confidence = edge.confidence]_vars

\* C34 witness: cid-a has been applied again to an edge that held cid-a and
\* whose confidence a KnowledgeProgressed event had set to 0.8; the confidence
\* is 0.1 now.
C34_Witness ==
    /\ last.op = "apply_event_pure" /\ last.arg.event.type = "EvidenceAdded"
    /\ last.arg.event.evidence_cid = "cid-a"
    /\ last.arg.confidence_before = 8
    /\ edge.knowledge_level = "Known"
    /\ edge.evidence_cids = << "cid-a" >>
    /\ edge.confidence = 1

----------------------------------------------------------------------------
\* Claims on termination (Spec)

\* C35: whenever an edge is in state Terminated, its validity period is ended:
\* ends_at is set and end_reason is the reason given by the terminating
\* operation or EdgeTerminated event; this holds along every path into
\* Terminated, including a direct transition_to(Terminated) call.
C35_TerminatedIsEnded ==
    Constructed /\ edge.state = "Terminated" =>
        /\ is_some(edge.validity.ends_at)
        /\ edge.validity.end_reason \in {Some(reason) : reason \in Reasons}

----------------------------------------------------------------------------
\* SpecIncidence: the incidence matrix of a hyperedge (its public field
\* participants), called with entity references that differ in one field
\* each, up to the two participants a hyperedge needs.
\* SpecPanics: the same calls and the participant events of the reducer, with
\* a reference whose cid is short.  A panic ends the behaviour; the matrix is
\* not changed by it, the key being computed first.

CidA == << "b", "a", "f", "y", "b", "e", "i", "a", "x" >>
CidB == << "b", "a", "f", "y", "b", "e", "i", "a", "y" >>
CidC == << "q", "m", "f", "y", "b", "e", "i", "a", "x" >>
CidShort == << "b", "a", "f" >>

Pinned == with_cid(P1, CidA)

IncidenceRefs ==
    {P1, EntityRef_new("Person", 2), EntityRef_new("Organization", 1),
     EntityRef_new("Custom(crm)", 1), EntityRef_new("Custom(erp)", 1),
     Pinned, with_cid(P1, CidB), with_cid(P1, CidC), with_version(Pinned, 1),
     with_version(P1, 1)}

\* A reference as every other, and one pinned to a cid of three characters
PanicRefs == {P1, with_cid(P1, CidShort)}

ImOps == {"add_participant", "remove_participant", "contains",
          "ParticipantAdded", "ParticipantRemoved", "ParticipantRoleChanged"}

Panicked == hlast.op \in ImOps /\ hlast.arg.panicked

\* The outcome of one call that starts with entity_ref.to_string()
ImOutcome(op, entity_ref, after, result) ==
    /\ HConstructed /\ ~Panicked
    /\ IF to_string_panics(entity_ref)
       THEN /\ hyper' = hyper
            /\ hlast' = Call(hlast, op, FALSE,
                             [entity_ref |-> entity_ref, panicked |-> TRUE, result |-> None])
       ELSE /\ hyper' = after
            /\ hlast' = Call(hlast, op, TRUE,
                             [entity_ref |-> entity_ref, panicked |-> FALSE,
                              result |-> result])
    /\ UNCHANGED besideHyper

\* hyper.participants.add_participant(entity_ref, role, weight)
ImAddParticipant(refs) ==
    /\ HConstructed /\ participant_count(hyper.participants) < MinParticipants
    /\ \E entity_ref \in refs, now \in Times :
          ImOutcome("add_participant", entity_ref,
                    [hyper EXCEPT !.participants =
                        im_add_participant(@, entity_ref, "Member", 100, now)],
                    None)

\* hyper.participants.remove_participant(&entity_ref)
ImRemoveParticipant(refs) ==
    \E entity_ref \in refs :
       ImOutcome("remove_participant", entity_ref,
                 [hyper EXCEPT !.participants = im_remove_participant(@, entity_ref).matrix],
                 im_remove_participant(hyper.participants, entity_ref).entry)

\* hyper.participants.contains(&entity_ref)
ImContains(refs) ==
    \E entity_ref \in refs :
       ImOutcome("contains", entity_ref, hyper,
                 Some(im_contains(hyper.participants, entity_ref)))

AddAnyRef == ImAddParticipant(IncidenceRefs)

RemoveAnyRef == ImRemoveParticipant(IncidenceRefs)

ContainsAnyRef == ImContains(IncidenceRefs)

NextIncidence ==
    \/ NewHyperEdge
    \/ AddAnyRef
    \/ RemoveAnyRef
    \/ ContainsAnyRef

SpecIncidence == Init /\ [][NextIncidence]_vars

\* The participant events
PanicEvents ==
    UNION {{ParticipantAdded(1, r, "Member", 100), ParticipantRemoved(1, r),
            ParticipantRoleChanged(1, r, "Leader")} : r \in PanicRefs}

\* HyperEdgeConcept::apply_event_pure, the caller keeping the returned aggregate
HApplyPanicEvent ==
    /\ HConstructed /\ hyper.version < MaxVersion
    /\ \E event \in PanicEvents, now \in Times :
          ImOutcome(event.type, event.participant,
                    h_apply_event_pure(hyper, event, now), None)

AddPanicRef == ImAddParticipant(PanicRefs)

RemovePanicRef == ImRemoveParticipant(PanicRefs)

ContainsPanicRef == ImContains(PanicRefs)

NextPanics ==
    \/ NewHyperEdge
    \/ AddPanicRef
    \/ RemovePanicRef
    \/ ContainsPanicRef
    \/ HApplyPanicEvent

SpecPanics == Init /\ [][NextPanics]_vars

----------------------------------------------------------------------------
\* Claims on the incidence matrix (SpecIncidence, SpecPanics)

\* The entity references a matrix holds
Held(m) == {m[key].entity_ref : key \in DOMAIN m}

\* C36: participant identity in the incidence matrix agrees with EntityRef
\* equality: two entity references that differ in any of type (including two
\* Custom types with different names), id, cid or version are distinct
\* participants, so adding one beside the other raises participant_count by
\* one and keeps both, contains() answers for the very reference asked about,
\* and removing one leaves the other.
C36_IdentityIsEntityRefEquality ==
    [][HConstructed /\ hlast'.op \in ImOps /\ ~hlast'.arg.panicked =>
          LET before == hyper.participants
              after == hyper'.participants
              entity_ref == hlast'.arg.entity_ref
          IN  /\ hlast'.op = "add_participant" =>
                    /\ Held(after) = Held(before) \cup {entity_ref}
                    /\ participant_count(after) = Cardinality(Held(before) \cup {entity_ref})
              /\ hlast'.op = "remove_participant" =>
                    Held(after) = Held(before) \ {entity_ref}
              /\ hlast'.op = "contains" =>
                    hlast'.arg.result = Some(entity_ref \in Held(before))]_vars

\* C37: incidence-matrix operations never panic: add_participant,
\* remove_participant and contains (and the ParticipantAdded,
\* ParticipantRemoved and ParticipantRoleChanged reducer arms) complete
\* normally for every EntityRef, including a pinned reference whose cid is
\* shorter than 8 characters.
C37_NoPanic == ~Panicked

----------------------------------------------------------------------------
\* Claims on the hyperedge in its terminal state (SpecReducer, SpecHyper)

\* C38: mutation in the terminal state is forbidden for the hyperedge
\* reducer: once a hyperedge aggregate is Dissolved, no later applied event
\* changes its state, participant set or validity period.
C38_DissolvedIgnoresEvents ==
    [][HConstructed /\ hyper.state = "Dissolved" /\ hlast'.op = "apply_event_pure" =>
          /\ hyper'.state = hyper.state
          /\ hyper'.participants = hyper.participants
          /\ hyper'.validity = hyper.validity]_vars

\* C39: under any sequence of add_participant, remove_participant, activate
\* and dissolve calls on a hyperedge created by HyperEdgeConcept::new, the
\* hyperedge is in state Active only while its participant count is at least 2.
C39_ActiveOnlyWithTwo ==
    HConstructed /\ hyper.state = "Active" =>
        participant_count(hyper.participants) >= MinParticipants

\* C39 witness: a participant has been removed from an Active hyperedge of
\* three, which is still Active with the two that remain.
C39_Witness ==
    /\ hlast.op = "remove_participant" /\ hlast.ok
    /\ hyper.state = "Active"
    /\ participant_count(hyper.participants) = 2
    /\ ~im_contains(hyper.participants, hlast.arg)

----------------------------------------------------------------------------
\* Claims on the two descriptions of the edge state machine (Spec)

\* C40: the two descriptions of the edge state machine agree: for every edge
\* state s, valid_transitions(s) lists exactly the states t for which
\* s.can_transition_to(t) holds (transition_to(t) is accepted in s exactly
\* then), each once, and it is empty exactly when s.is_terminal().
C40_DescriptionsAgree ==
    [][Constructed /\ last'.op = "transition_to" =>
          LET listed == valid_transitions(edge.state) IN
          /\ contains(listed, last'.arg) = can_transition_to(edge.state, last'.arg)
          /\ contains(listed, last'.arg) = last'.ok
          /\ \A i, j \in 1 .. Len(listed) : listed[i] = listed[j] => i = j
          /\ (listed = << >>) = is_terminal(edge.state)]_vars

\* C40 witness: transition_to(Active) has been refused on a Rejected edge,
\* for which valid_transitions lists nothing.
C40_Witness ==
    /\ last.op = "transition_to" /\ ~last.ok /\ last.arg = "Active"
    /\ edge.state = "Rejected"
    /\ valid_transitions(edge.state) = << >>

============================================================================
